---- MODULE Spec2Model ----
(***************************************************************************)
(* quay-admin: audit of the permissions of the repositories of a quay.io   *)
(* namespace (src/quayadmin/_impl.py; src/quay_admin.py is the earlier     *)
(* iteration of the same tool).                                            *)
(*                                                                         *)
(* _impl.py is Python 3 code (it returns values from inlineCallbacks       *)
(* generators), so the builtin map() yields a lazy, one-shot iterator.     *)
(* The permission sequences held by a RepositoryPermissions are therefore  *)
(* modelled as iterator objects with their own state.                      *)
(***************************************************************************)
EXTENDS Integers, Sequences, FiniteSets, TLC

\* Bounds of the model.
MaxRepos == 2       \* repositories in a list response or a state file
MaxEntries == 3     \* entries of a snapshot a client makes from its own lists

(***************************************************************************)
(* Python values                                                           *)
(***************************************************************************)
None == [py |-> "None"]
Str(s) == [py |-> "str", s |-> s]
\* Python truthiness of an optional string: None and '' are falsy.
Truthy(v) == v.py = "str" /\ v.s # ""

QUAY_IO_ENDPOINT == "https://quay.io/api/v1"

\* Values of the QUAY_TOKEN environment variable: unset, set empty, set.
Tokens == {None, Str(""), Str("s3cret")}

Paths == {"quay.state", "dump.json"}

(***************************************************************************)
(* JSON data as the registry API and the state file hold it                *)
(***************************************************************************)
AvatarDict(name, kind) ==
    [color |-> "#1f77b4", hash |-> name, kind |-> kind, name |-> name]

UserDict(name, role, member, robot) ==
    [avatar |-> AvatarDict(name, "user"), name |-> name, role |-> role,
     is_org_member |-> member, is_robot |-> robot]

TeamDict(name, role) ==
    [avatar |-> AvatarDict(name, "team"), name |-> name, role |-> role]

RepoDict(namespace, name, public) ==
    [namespace |-> namespace, name |-> name, kind |-> "image",
     is_starred |-> FALSE, is_public |-> public, description |-> None]

alice == UserDict("alice", "admin", TRUE, FALSE)
bob   == UserDict("bob", "write", FALSE, FALSE)
cibot == UserDict("acme+ci", "read", FALSE, TRUE)
devs  == TeamDict("devs", "write")
ops   == TeamDict("ops", "admin")

RepoA  == RepoDict("acme", "app", FALSE)
RepoB  == RepoDict("acme", "web", FALSE)
\* Same spec as RepoA, another field value: a different Repository.
RepoA2 == RepoDict("acme", "app", TRUE)

RepoDicts == {RepoA, RepoB, RepoA2}

(***************************************************************************)
(* The attrs classes                                                       *)
(***************************************************************************)
\* Avatar(**avatar_data)
Avatar(d) ==
    [cls |-> "Avatar", color |-> d.color, hash |-> d.hash, kind |-> d.kind,
     name |-> d.name]

\* Permission.from_dict on the class UserPermission
UserPermission_from_dict(d) ==
    [cls |-> "UserPermission", avatar |-> Avatar(d.avatar), name |-> d.name,
     role |-> d.role, is_org_member |-> d.is_org_member,
     is_robot |-> d.is_robot]

\* Permission.from_dict on the class TeamPermission
TeamPermission_from_dict(d) ==
    [cls |-> "TeamPermission", avatar |-> Avatar(d.avatar), name |-> d.name,
     role |-> d.role]

\* Repository(**data)
Repository_from_dict(d) ==
    [cls |-> "Repository", namespace |-> d.namespace, name |-> d.name,
     kind |-> d.kind, is_starred |-> d.is_starred, is_public |-> d.is_public,
     description |-> d.description]

\* Repository.spec: '%s/%s' % (namespace, name)
spec(repository) == <<repository.namespace, "/", repository.name>>

(***************************************************************************)
(* Sequences held by a RepositoryPermissions: a Python list, or the lazy   *)
(* iterator that map(f, xs) returns.  A map object holds the source items  *)
(* it has not yet converted; iterating it converts and yields them once.   *)
(***************************************************************************)
PyList(xs) == [type |-> "list", func |-> "", items |-> xs]

PyMap(f, xs) == [type |-> "map", func |-> f, items |-> xs]

Call(f, d) ==
    IF f = "UserPermission.from_dict" THEN UserPermission_from_dict(d)
    ELSE TeamPermission_from_dict(d)

\* What a full iteration of the object yields ...
Yield(it) ==
    IF it.type = "map" THEN [i \in 1..Len(it.items) |-> Call(it.func, it.items[i])]
    ELSE it.items

\* ... and the object after it.
Exhausted(it) ==
    IF it.type = "map" THEN [it EXCEPT !.items = <<>>] ELSE it

RepositoryPermissions(repository, user_permissions, team_permissions) ==
    [cls |-> "RepositoryPermissions", repository |-> repository,
     user_permissions |-> user_permissions,
     team_permissions |-> team_permissions]

(***************************************************************************)
(* State                                                                   *)
(***************************************************************************)
VARIABLES
    config,     \* parsed arguments: from_state, dump_state, namespace
    registry,   \* Registry(endpoint, token), token from QUAY_TOKEN
    files,      \* the file system: path -> content
    requests,   \* every request handed to treq.request, in order of issue
    pc,         \* where the running program is
    built,      \* state of the Deferred of from_registry
    repos,      \* result of list_repositories
    inner,      \* per repository: the gatherResults of its two fetches
    outer,      \* the gatherResults of map_concurrently
    perms,      \* the AllRepositoryPermissions held, its _repository_permissions
    failure,    \* the exception the last failing call raised
    external,   \* the mapping find_repos_with_external_users returned last
    last,       \* the last operation called on the snapshot API, and its outcome
    stdout,     \* lines printed
    exit_code,  \* exit status of the process, once it has exited
    overtaken   \* a repository's aggregation finished before an earlier one's

vars == <<config, registry, files, requests, pc, built, repos, inner, outer,
          perms, failure, external, last, stdout, exit_code, overtaken>>

NoSnapshot == [cls |-> "NoSnapshot"]
AllRepositoryPermissions(repository_permissions) ==
    [cls |-> "AllRepositoryPermissions",
     _repository_permissions |-> repository_permissions]

NoFailure == [exc |-> "none"]

(***************************************************************************)
(* The registry, as the tool's requests see it: the answer to a request    *)
(* depends on its path alone.                                              *)
(***************************************************************************)
PermissionMap(ds) == [i \in 1..Len(ds) |-> [key |-> ds[i].name, value |-> ds[i]]]

ServerUsers(repo_spec) ==
    IF repo_spec = <<"acme", "/", "app">> THEN PermissionMap(<<alice, bob, cibot>>)
    ELSE PermissionMap(<<alice>>)

ServerTeams(repo_spec) ==
    IF repo_spec = <<"acme", "/", "app">> THEN PermissionMap(<<devs, ops>>)
    ELSE PermissionMap(<<>>)

\* The JSON body a successful permission request gets.
ServerResponse(request) ==
    LET path == request.url[3]
    IN  IF path[3] = "/permissions/user/"
        THEN [permissions |-> ServerUsers(path[2])]
        ELSE [permissions |-> ServerTeams(path[2])]

\* dict.values(): the values in insertion order, keys dropped.
values(m) == [i \in 1..Len(m) |-> m[i].value]

\* The repository lists a list response may hold.
RECURSIVE SeqsUpTo(_, _)
SeqsUpTo(S, n) ==
    IF n = 0 THEN {<<>>}
    ELSE LET shorter == SeqsUpTo(S, n - 1)
         IN  shorter \cup {Append(s, x) : s \in shorter, x \in S}

ListResponses == SeqsUpTo(RepoDicts, MaxRepos)

\* The body of a list response: a page of repositories, and the token of
\* the next page when the page is full.
ListBody(repositories) ==
    [repositories |-> repositories,
     next_page |-> IF Len(repositories) = MaxRepos THEN Str("page2") ELSE None]

ListBodies == {ListBody(repositories) : repositories \in ListResponses}

\* How a request can end: a JSON body as expected, a failure of treq
\* (network, TLS, body that is no JSON), a JSON body without the expected key.
Outcomes == {"ok", "ConnectError", "KeyError"}

\* A permission request: a JSON body as expected, or a failure.
PermissionOutcomes == {"ok", "ConnectError"}

(***************************************************************************)
(* Registry                                                                *)
(***************************************************************************)
\* Mutant: the header is set whether or not there is a token.
_request_always_authorizes(self, method, path, params) ==
    [method |-> method,
     url |-> <<self.endpoint, "/", path>>,
     params |-> params,
     headers |-> {<<"Authorization",
                    <<"Bearer ", IF self.token.py = "str" THEN self.token.s
                                 ELSE "None">>>>}]

\* Registry._request: the url and the headers of the request.
_request(self, method, path, params) ==
    [method |-> method,
     url |-> <<self.endpoint, "/", path>>,
     params |-> params,
     headers |-> IF Truthy(self.token)
                 THEN {<<"Authorization", <<"Bearer ", self.token.s>>>>}
                 ELSE {}]

list_repositories_request(self, namespace) ==
    _request(self, "GET", <<"repository">>, {<<"namespace", namespace>>})

get_user_permissions_request(self, repo_spec) ==
    _request(self, "GET", <<"repository/", repo_spec, "/permissions/user/">>, {})

get_team_permissions_request(self, repo_spec) ==
    _request(self, "GET", <<"repository/", repo_spec, "/permissions/team/">>, {})

\* Results of the two methods on a JSON body: map() over the values.
get_user_permissions_result(body) ==
    PyMap("UserPermission.from_dict", values(body.permissions))

get_team_permissions_result(body) ==
    PyMap("TeamPermission.from_dict", values(body.permissions))

\* The failure of a request: the exception and the request it belongs to.
RequestFailure(exc, req) == [exc |-> exc, req |-> req]

(***************************************************************************)
(* twisted.internet.defer.gatherResults: a DeferredList with               *)
(* fireOnOneErrback, then _parseDListResult.                               *)
(***************************************************************************)
FirstError(subFailure, index) ==
    [exc |-> "FirstError", subFailure |-> subFailure, index |-> index]

NotYet == [done |-> FALSE, ok |-> FALSE, val |-> None]

\* _parseDListResult: the results, in the order of the Deferreds.
_parseDListResult(resultList) == [i \in 1..Len(resultList) |-> resultList[i].val]

\* Mutant: the Deferred fires from the callback of a result only, so over
\* no Deferreds it never fires.
gatherResults_fired_by_results(n) ==
    [resultList |-> [i \in 1..n |-> NotYet],
     finishedCount |-> 0,
     called |-> FALSE,
     ok |-> FALSE,
     result |-> None]

\* The Deferred of gatherResults over n Deferreds; over none it has fired
\* with the empty list.
gatherResults(n) ==
    [resultList |-> [i \in 1..n |-> NotYet],
     finishedCount |-> 0,
     called |-> (n = 0),
     ok |-> (n = 0),
     result |-> IF n = 0 THEN <<>> ELSE None]

\* Mutant: results are appended as they arrive, not stored at their index.
_cbDeferred_completion_order(dl, i, succeeded, result) ==
    LET stored == [dl EXCEPT !.resultList[dl.finishedCount + 1] =
                                 [done |-> TRUE, ok |-> succeeded, val |-> result],
                             !.finishedCount = @ + 1]
    IN  IF dl.called THEN stored
        ELSE IF ~succeeded
             THEN [stored EXCEPT !.called = TRUE, !.ok = FALSE,
                                 !.result = FirstError(result, i - 1)]
        ELSE IF stored.finishedCount = Len(dl.resultList)
             THEN [stored EXCEPT !.called = TRUE, !.ok = TRUE,
                                 !.result = _parseDListResult(stored.resultList)]
        ELSE stored

\* Mutant: a DeferredList without fireOnOneErrback, which waits for every
\* result and then fires with what it has collected.
_cbDeferred_collect_all(dl, i, succeeded, result) ==
    LET stored == [dl EXCEPT !.resultList[i] =
                                 [done |-> TRUE, ok |-> succeeded, val |-> result],
                             !.finishedCount = @ + 1]
    IN  IF dl.called THEN stored
        ELSE IF stored.finishedCount = Len(dl.resultList)
             THEN [stored EXCEPT !.called = TRUE, !.ok = TRUE,
                                 !.result = _parseDListResult(stored.resultList)]
        ELSE stored

\* DeferredList._cbDeferred for the result of the i-th Deferred (i from 1
\* here, FirstError.index from 0): the result is stored at its index; the
\* list fires once, with the first failure or when all have succeeded.
_cbDeferred(dl, i, succeeded, result) ==
    LET stored == [dl EXCEPT !.resultList[i] =
                                 [done |-> TRUE, ok |-> succeeded, val |-> result],
                             !.finishedCount = @ + 1]
    IN  IF dl.called THEN stored
        ELSE IF ~succeeded
             THEN [stored EXCEPT !.called = TRUE, !.ok = FALSE,
                                 !.result = FirstError(result, i - 1)]
        ELSE IF stored.finishedCount = Len(dl.resultList)
             THEN [stored EXCEPT !.called = TRUE, !.ok = TRUE,
                                 !.result = _parseDListResult(stored.resultList)]
        ELSE stored

(***************************************************************************)
(* get_repository_permissions, map_concurrently, from_registry             *)
(***************************************************************************)
\* The two requests get_repository_permissions issues before it yields.
get_repository_permissions_requests(repository, self) ==
    <<get_user_permissions_request(self, spec(repository)),
      get_team_permissions_request(self, spec(repository))>>

\* Mutant: the failure of a fetch is swallowed and the record is built from
\* whatever results there are.
get_repository_permissions_result_partial(repository, dl) ==
    RepositoryPermissions(repository, dl.resultList[1].val, dl.resultList[2].val)

\* What get_repository_permissions ends with once its gatherResults has
\* fired: the record of both results, or the failure raised at the yield.
get_repository_permissions_result(repository, dl) ==
    IF dl.ok
    THEN RepositoryPermissions(repository, dl.result[1], dl.result[2])
    ELSE dl.result

\* Mutant: every call is made with the x the loop ended on.
map_concurrently_requests_last_x(xs, self) ==
    [j \in 1..(2 * Len(xs)) |->
        get_repository_permissions_requests(xs[Len(xs)], self)[2 - (j % 2)]]

\* Mutant: only the first x is started before the gathering; the others
\* wait for their turn.
map_one_at_a_time_requests(xs, self) ==
    IF xs = <<>> THEN <<>>
    ELSE get_repository_permissions_requests(Head(xs), self)

\* map_concurrently calls f on every x before it gathers: the requests of
\* all repositories, in the order of xs.
RECURSIVE map_concurrently_requests(_, _)
map_concurrently_requests(xs, self) ==
    IF xs = <<>> THEN <<>>
    ELSE get_repository_permissions_requests(Head(xs), self)
         \o map_concurrently_requests(Tail(xs), self)

\* Index in requests of fetch k (1 user, 2 team) of repository i.
RequestOf(i, k) == 1 + 2 * (i - 1) + k

\* main that builds from the registry whether or not a state file is given.
from_registry_unconditional ==
    /\ pc = "start"
    /\ requests' = Append(requests,
                          list_repositories_request(registry, config.namespace))
    /\ built' = "listing"
    /\ pc' = "build"
    /\ UNCHANGED <<config, registry, files, repos, inner, outer, perms,
                   failure, external, last, stdout, exit_code, overtaken>>

\* from_registry, first line: list_repositories is called.
from_registry ==
    /\ pc = "start"
    /\ ~Truthy(config.from_state)
    /\ requests' = Append(requests,
                          list_repositories_request(registry, config.namespace))
    /\ built' = "listing"
    /\ pc' = "build"
    /\ UNCHANGED <<config, registry, files, repos, inner, outer, perms,
                   failure, external, last, stdout, exit_code, overtaken>>

\* Mutant: a list response with a next_page token is followed by a request
\* for that page.
list_repositories_done_next_page ==
    /\ built = "listing"
    /\ \E outcome \in Outcomes :
        IF outcome = "ok"
        THEN \E body \in ListBodies :
               LET rs == [i \in 1..Len(body.repositories) |->
                             Repository_from_dict(body.repositories[i])]
                   dl == gatherResults(Len(rs))
               IN  /\ repos' = rs
                   /\ requests' = requests \o map_concurrently_requests(rs, registry)
                                   \o IF Truthy(body.next_page)
                                      THEN <<list_repositories_request(
                                                 registry, config.namespace)>>
                                      ELSE <<>>
                   /\ inner' = [i \in 1..Len(rs) |-> gatherResults(2)]
                   /\ outer' = dl
                   /\ IF dl.called
                      THEN /\ built' = "done"
                           /\ perms' = AllRepositoryPermissions(dl.result)
                           /\ pc' = "have_perms"
                      ELSE /\ built' = "gathering"
                           /\ UNCHANGED <<perms, pc>>
                   /\ UNCHANGED failure
        ELSE /\ built' = "failed"
             /\ failure' = RequestFailure(outcome, 1)
             /\ pc' = "raised"
             /\ UNCHANGED <<repos, requests, inner, outer, perms>>
    /\ UNCHANGED <<config, registry, files, external, last, stdout, exit_code, overtaken>>

\* Mutant: a list request that failed is noted and the build goes on as
\* over no repositories.
list_repositories_done_empty_on_failure ==
    /\ built = "listing"
    /\ \E outcome \in Outcomes :
        IF outcome = "ok"
        THEN \E body \in ListBodies :
               LET rs == [i \in 1..Len(body.repositories) |->
                             Repository_from_dict(body.repositories[i])]
                   dl == gatherResults(Len(rs))
               IN  /\ repos' = rs
                   /\ requests' = requests \o map_concurrently_requests(rs, registry)
                   /\ inner' = [i \in 1..Len(rs) |-> gatherResults(2)]
                   /\ outer' = dl
                   /\ IF dl.called
                      THEN /\ built' = "done"
                           /\ perms' = AllRepositoryPermissions(dl.result)
                           /\ pc' = "have_perms"
                      ELSE /\ built' = "gathering"
                           /\ UNCHANGED <<perms, pc>>
                   /\ UNCHANGED failure
        ELSE /\ built' = "done"
             /\ failure' = RequestFailure(outcome, 1)
             /\ perms' = AllRepositoryPermissions(<<>>)
             /\ pc' = "have_perms"
             /\ UNCHANGED <<repos, requests, inner, outer>>
    /\ UNCHANGED <<config, registry, files, external, last, stdout, exit_code, overtaken>>

\* The list request ends.  On success from_registry goes on to
\* map_concurrently, which issues every permission request at once.
list_repositories_done ==
    /\ built = "listing"
    /\ \E outcome \in Outcomes :
        IF outcome = "ok"
        THEN \E body \in ListBodies :
               LET rs == [i \in 1..Len(body.repositories) |->
                             Repository_from_dict(body.repositories[i])]
                   dl == gatherResults(Len(rs))
               IN  /\ repos' = rs
                   /\ requests' = requests \o map_concurrently_requests(rs, registry)
                   /\ inner' = [i \in 1..Len(rs) |-> gatherResults(2)]
                   /\ outer' = dl
                   /\ IF dl.called
                      THEN /\ built' = "done"
                           /\ perms' = AllRepositoryPermissions(dl.result)
                           /\ pc' = "have_perms"
                      ELSE /\ built' = "gathering"
                           /\ UNCHANGED <<perms, pc>>
                   /\ UNCHANGED failure
        ELSE /\ built' = "failed"
             /\ failure' = RequestFailure(outcome, 1)
             /\ pc' = "raised"
             /\ UNCHANGED <<repos, requests, inner, outer, perms>>
    /\ UNCHANGED <<config, registry, files, external, last, stdout, exit_code, overtaken>>

\* The result of a permission request on its outcome.
fetch_result(i, k, outcome) ==
    LET req == RequestOf(i, k)
        body == ServerResponse(requests[req])
    IN  IF outcome # "ok" THEN RequestFailure(outcome, req)
        ELSE IF k = 1 THEN get_user_permissions_result(body)
        ELSE get_team_permissions_result(body)

\* Mutant: a failure that arrives after the build failed replaces the
\* failure reported.
permissions_done_last_failure(i, k, outcome) ==
    /\ built \in {"gathering", "failed"}
    /\ pc # "exited"
    /\ i \in 1..Len(repos)
    /\ ~inner[i].resultList[k].done
    /\ LET succeeded == (outcome = "ok")
           in_i == _cbDeferred(inner[i], k, succeeded, fetch_result(i, k, outcome))
           fired_i == ~inner[i].called /\ in_i.called
           out == IF fired_i
                  THEN _cbDeferred(outer, i, in_i.ok,
                                   get_repository_permissions_result(repos[i], in_i))
                  ELSE outer
           fired_o == ~outer.called /\ out.called
       IN  /\ inner' = [inner EXCEPT ![i] = in_i]
           /\ outer' = out
           /\ IF fired_o /\ out.ok
              THEN /\ built' = "done"
                   /\ perms' = AllRepositoryPermissions(out.result)
                   /\ pc' = "have_perms"
                   /\ UNCHANGED failure
              ELSE IF fired_o
              THEN /\ built' = "failed"
                   /\ failure' = out.result
                   /\ pc' = "raised"
                   /\ UNCHANGED perms
              ELSE IF ~succeeded
              THEN /\ failure' = FirstError(FirstError(fetch_result(i, k, outcome),
                                                      k - 1), i - 1)
                   /\ UNCHANGED <<built, perms, pc>>
              ELSE UNCHANGED <<built, perms, pc, failure>>
           /\ overtaken' = (overtaken \/ (fired_i /\ \E j \in 1..(i - 1) :
                                                        ~outer.resultList[j].done))
    /\ UNCHANGED <<config, registry, files, requests, repos, external, last,
                   stdout, exit_code>>

\* One permission request ends, while the process runs.  Its callbacks run
\* at once: the inner gatherResults, get_repository_permissions when that
\* fires, the outer gatherResults, and from_registry when that fires.
permissions_done(i, k, outcome) ==
    /\ built \in {"gathering", "failed"}
    /\ pc # "exited"
    /\ i \in 1..Len(repos)
    /\ ~inner[i].resultList[k].done
    /\ LET succeeded == (outcome = "ok")
           in_i == _cbDeferred(inner[i], k, succeeded, fetch_result(i, k, outcome))
           fired_i == ~inner[i].called /\ in_i.called
           out == IF fired_i
                  THEN _cbDeferred(outer, i, in_i.ok,
                                   get_repository_permissions_result(repos[i], in_i))
                  ELSE outer
           fired_o == ~outer.called /\ out.called
       IN  /\ inner' = [inner EXCEPT ![i] = in_i]
           /\ outer' = out
           /\ IF fired_o /\ out.ok
              THEN /\ built' = "done"
                   /\ perms' = AllRepositoryPermissions(out.result)
                   /\ pc' = "have_perms"
                   /\ UNCHANGED failure
              ELSE IF fired_o
              THEN /\ built' = "failed"
                   /\ failure' = out.result
                   /\ pc' = "raised"
                   /\ UNCHANGED perms
              ELSE UNCHANGED <<built, perms, pc, failure>>
           /\ overtaken' = (overtaken \/ (fired_i /\ \E j \in 1..(i - 1) :
                                                        ~outer.resultList[j].done))
    /\ UNCHANGED <<config, registry, files, requests, repos, external, last,
                   stdout, exit_code>>

get_user_permissions_done ==
    \E i \in 1..Len(repos), outcome \in PermissionOutcomes :
        permissions_done(i, 1, outcome)

get_team_permissions_done ==
    \E i \in 1..Len(repos), outcome \in PermissionOutcomes :
        permissions_done(i, 2, outcome)

(***************************************************************************)
(* The snapshot: from_json_file, to_json_file,                             *)
(* find_repos_with_external_users                                          *)
(***************************************************************************)
NoFile == [kind |-> "absent", data |-> <<>>]
JsonFile(data) == [kind |-> "json", data |-> data]
\* What a json.dump that raised half-way leaves: the start of a document.
TruncatedFile == [kind |-> "truncated", data |-> <<>>]

\* What a reader of the snapshot gets when it iterates the sequences now.
ObservableEntry(perm) ==
    [repository |-> perm.repository,
     user_permissions |-> Yield(perm.user_permissions),
     team_permissions |-> Yield(perm.team_permissions)]

Observable(snapshot) ==
    IF snapshot = NoSnapshot THEN <<>>
    ELSE [i \in 1..Len(snapshot._repository_permissions) |->
             ObservableEntry(snapshot._repository_permissions[i])]

\* RepositoryPermissions.from_dict: the first missing key raises KeyError;
\* the two map() calls convert nothing yet.
from_dict_missing(data) ==
    IF "repository" \notin DOMAIN data THEN "repository"
    ELSE IF "user_permissions" \notin DOMAIN data THEN "user_permissions"
    ELSE IF "team_permissions" \notin DOMAIN data THEN "team_permissions"
    ELSE ""

RepositoryPermissions_from_dict(data) ==
    RepositoryPermissions(
        Repository_from_dict(data.repository),
        PyMap("UserPermission.from_dict", data.user_permissions),
        PyMap("TeamPermission.from_dict", data.team_permissions))

\* Mutant: a missing team_permissions key is read as an empty list, as
\* data.get('team_permissions', []) would.
from_json_file_default_teams(file) ==
    IF file.kind = "absent"
    THEN [ok |-> FALSE, val |-> [exc |-> "FileNotFoundError", key |-> ""]]
    ELSE IF file.kind = "truncated"
    THEN [ok |-> FALSE, val |-> [exc |-> "JSONDecodeError", key |-> ""]]
    ELSE LET raw_perms == file.data
             required == {"repository", "user_permissions"}
             bad == {i \in 1..Len(raw_perms) : required \ DOMAIN raw_perms[i] # {}}
         IN  IF bad # {}
             THEN LET first == CHOOSE i \in bad : \A j \in bad : i <= j
                  IN  [ok |-> FALSE,
                       val |-> [exc |-> "KeyError",
                                key |-> IF "repository" \notin DOMAIN raw_perms[first]
                                        THEN "repository" ELSE "user_permissions"]]
             ELSE [ok |-> TRUE,
                   val |-> AllRepositoryPermissions(
                               [i \in 1..Len(raw_perms) |->
                                   RepositoryPermissions(
                                       Repository_from_dict(raw_perms[i].repository),
                                       PyMap("UserPermission.from_dict",
                                             raw_perms[i].user_permissions),
                                       PyMap("TeamPermission.from_dict",
                                             IF "team_permissions" \in DOMAIN raw_perms[i]
                                             THEN raw_perms[i].team_permissions
                                             ELSE <<>>))])]

\* AllRepositoryPermissions.from_json_file: [ok, value or exception].
from_json_file(file) ==
    IF file.kind = "absent"
    THEN [ok |-> FALSE, val |-> [exc |-> "FileNotFoundError", key |-> ""]]
    ELSE IF file.kind = "truncated"
    THEN [ok |-> FALSE, val |-> [exc |-> "JSONDecodeError", key |-> ""]]
    ELSE LET raw_perms == file.data
             bad == {i \in 1..Len(raw_perms) : from_dict_missing(raw_perms[i]) # ""}
         IN  IF bad # {}
             THEN LET first == CHOOSE i \in bad : \A j \in bad : i <= j
                  IN  [ok |-> FALSE,
                       val |-> [exc |-> "KeyError",
                                key |-> from_dict_missing(raw_perms[first])]]
             ELSE [ok |-> TRUE,
                   val |-> AllRepositoryPermissions(
                               [i \in 1..Len(raw_perms) |->
                                   RepositoryPermissions_from_dict(raw_perms[i])])]

\* attr.asdict of the attrs instances.
Avatar_asdict(a) ==
    [color |-> a.color, hash |-> a.hash, kind |-> a.kind, name |-> a.name]

Permission_asdict(p) ==
    IF p.cls = "UserPermission"
    THEN [avatar |-> Avatar_asdict(p.avatar), name |-> p.name, role |-> p.role,
          is_org_member |-> p.is_org_member, is_robot |-> p.is_robot]
    ELSE [avatar |-> Avatar_asdict(p.avatar), name |-> p.name, role |-> p.role]

Repository_asdict(r) ==
    [namespace |-> r.namespace, name |-> r.name, kind |-> r.kind,
     is_starred |-> r.is_starred, is_public |-> r.is_public,
     description |-> r.description]

\* asdict recurses into lists and tuples; any other object, a map object
\* included, is put into the dict as it is.
sequence_asdict(v) ==
    IF v.type = "list"
    THEN PyList([i \in 1..Len(v.items) |-> Permission_asdict(v.items[i])])
    ELSE v

attr_asdict(perm) ==
    [repository |-> Repository_asdict(perm.repository),
     user_permissions |-> sequence_asdict(perm.user_permissions),
     team_permissions |-> sequence_asdict(perm.team_permissions)]

\* json can encode dicts, lists, strings, booleans and None; no map object.
json_serializable(d) ==
    d.user_permissions.type = "list" /\ d.team_permissions.type = "list"

json_text(d) ==
    [repository |-> d.repository,
     user_permissions |-> d.user_permissions.items,
     team_permissions |-> d.team_permissions.items]

\* AllRepositoryPermissions.to_json_file: [ok, file written].  open(path, 'w')
\* truncates; json.dump writes as it encodes and raises TypeError at the
\* first object it cannot encode.
to_json_file(self) ==
    LET dicts == [i \in 1..Len(self._repository_permissions) |->
                     attr_asdict(self._repository_permissions[i])]
    IN  IF \A i \in 1..Len(dicts) : json_serializable(dicts[i])
        THEN [ok |-> TRUE,
              file |-> JsonFile([i \in 1..Len(dicts) |-> json_text(dicts[i])])]
        ELSE [ok |-> FALSE, file |-> TruncatedFile]

\* Mutant: every assignment adds an item, as on a list of pairs.
dict_setitem_append(d, key, value) == Append(d, [key |-> key, value |-> value])

\* repos[key] = value on a dict kept as its items in insertion order.
dict_setitem(d, key, value) ==
    IF \E i \in 1..Len(d) : d[i].key = key
    THEN [i \in 1..Len(d) |-> IF d[i].key = key
                              THEN [key |-> key, value |-> value] ELSE d[i]]
    ELSE Append(d, [key |-> key, value |-> value])

\* Mutant: robot accounts are left out of the external users.
external_users_of_humans(users) ==
    SelectSeq(users, LAMBDA user : ~user.is_org_member /\ ~user.is_robot)

\* The list comprehension of find_repos_with_external_users.
external_users_of(users) == SelectSeq(users, LAMBDA user : ~user.is_org_member)

\* Mutant: the loop stores the list of every repository, empty or not.
RECURSIVE find_loop_keeps_empty(_, _, _)
find_loop_keeps_empty(entries, i, d) ==
    IF i > Len(entries) THEN d
    ELSE find_loop_keeps_empty(
             entries, i + 1,
             dict_setitem(d, entries[i].repository,
                          external_users_of(Yield(entries[i].user_permissions))))

\* The loop of find_repos_with_external_users from entry i on.
RECURSIVE find_loop(_, _, _)
find_loop(entries, i, d) ==
    IF i > Len(entries) THEN d
    ELSE LET external_users == external_users_of(Yield(entries[i].user_permissions))
         IN  find_loop(entries, i + 1,
                       IF external_users # <<>>
                       THEN dict_setitem(d, entries[i].repository, external_users)
                       ELSE d)

\* find_repos_with_external_users: the mapping returned ...
find_repos_with_external_users(self) ==
    find_loop(self._repository_permissions, 1, <<>>)

\* ... and the snapshot after the call: every user_permissions was iterated.
after_find(self) ==
    AllRepositoryPermissions(
        [i \in 1..Len(self._repository_permissions) |->
            [self._repository_permissions[i] EXCEPT
                !.user_permissions = Exhausted(@)]])

(***************************************************************************)
(* A client of the snapshot API: it holds one snapshot (perms) and calls   *)
(* the three methods on it in any order.                                   *)
(***************************************************************************)
call_find ==
    /\ pc = "have_perms"
    /\ external' = find_repos_with_external_users(perms)
    /\ perms' = after_find(perms)
    /\ last' = [op |-> "find", ok |-> TRUE, path |-> "",
                before |-> Observable(perms), prev |-> external,
                repeat |-> (last.op = "find")]
    /\ UNCHANGED <<config, registry, files, requests, pc, built, repos, inner,
                   outer, failure, stdout, exit_code, overtaken>>

call_to_json_file ==
    /\ pc = "have_perms"
    /\ \E path \in Paths :
        LET r == to_json_file(perms)
        IN  /\ files' = [files EXCEPT ![path] = r.file]
            /\ failure' = IF r.ok THEN failure ELSE [exc |-> "TypeError", key |-> ""]
            /\ last' = [op |-> "to_json_file", ok |-> r.ok, path |-> path,
                        before |-> Observable(perms), prev |-> <<>>,
                        repeat |-> FALSE]
    /\ UNCHANGED <<config, registry, requests, pc, built, repos, inner, outer,
                   perms, external, stdout, exit_code, overtaken>>

\* A load replaces the snapshot held; a load that raises leaves it.
call_from_json_file ==
    /\ \E path \in Paths :
        /\ \/ pc = "have_perms"
           \/ pc = "start" /\ Truthy(config.from_state) /\ config.from_state.s = path
        /\ LET r == from_json_file(files[path])
               round_trip == last.op = "to_json_file" /\ last.path = path /\ last.ok
           IN  /\ perms' = IF r.ok THEN r.val ELSE perms
               /\ failure' = IF r.ok THEN failure ELSE r.val
               /\ pc' = IF r.ok THEN "have_perms"
                        ELSE IF pc = "start" THEN "raised" ELSE pc
               /\ last' = [op |-> "from_json_file", ok |-> r.ok, path |-> path,
                           before |-> IF round_trip THEN last.before ELSE <<>>,
                           prev |-> <<>>, repeat |-> round_trip]
    /\ UNCHANGED <<config, registry, files, requests, built, repos, inner,
                   outer, external, stdout, exit_code, overtaken>>

(***************************************************************************)
(* main, run by react                                                      *)
(***************************************************************************)
\* '- %s [%s]%s' % (user.name, user.role, ' (robot)' if user.is_robot else '')
user_line(user) ==
    <<"- ", user.name, " [", user.role, "]",
      IF user.is_robot THEN " (robot)" ELSE "">>

\* One turn of the loop over external.items(): the spec of the repository,
\* a line per user, an empty line.
print_item(repo, users) ==
    <<spec(repo)>> \o [i \in 1..Len(users) |-> user_line(users[i])] \o <<<<>>>>

\* Turns of the loop made so far: each ends with the one empty line.
printed_items(lines) == Len(SelectSeq(lines, LAMBDA l : l = <<>>))

\* Mutant: main returns without sys.exit(1), as in the earlier quay_admin.py.
exit_status_of_return(mapping) == 0

\* The status react exits with: that of a SystemExit, 1 on any other
\* failure, 0 when main returns.
exit_status(mapping) == IF mapping # <<>> THEN 1 ELSE 0

\* if config.from_state: perms = AllRepositoryPermissions.from_json_file(...)
main_from_json_file ==
    /\ pc = "start"
    /\ Truthy(config.from_state)
    /\ LET r == from_json_file(files[config.from_state.s])
       IN  /\ perms' = IF r.ok THEN r.val ELSE perms
           /\ failure' = IF r.ok THEN failure ELSE r.val
           /\ pc' = IF r.ok THEN "have_perms" ELSE "raised"
    /\ UNCHANGED <<config, registry, files, requests, built, repos, inner,
                   outer, external, last, stdout, exit_code, overtaken>>

\* external = perms.find_repos_with_external_users()
main_find ==
    /\ pc = "have_perms"
    /\ external' = find_repos_with_external_users(perms)
    /\ perms' = after_find(perms)
    /\ last' = [last EXCEPT !.op = "find", !.before = Observable(perms)]
    /\ pc' = "print"
    /\ UNCHANGED <<config, registry, files, requests, built, repos, inner,
                   outer, failure, stdout, exit_code, overtaken>>

\* for repo, users in external.items(): one turn, or the end of the loop.
main_print ==
    /\ pc = "print"
    /\ LET i == printed_items(stdout) + 1
       IN  IF i <= Len(external)
           THEN /\ stdout' = stdout \o print_item(external[i].key, external[i].value)
                /\ UNCHANGED pc
           ELSE /\ pc' = "dump"
                /\ UNCHANGED stdout
    /\ UNCHANGED <<config, registry, files, requests, built, repos, inner,
                   outer, perms, failure, external, last, exit_code, overtaken>>

\* if config.dump_state: perms.to_json_file(config.dump_state)
main_dump ==
    /\ pc = "dump"
    /\ IF Truthy(config.dump_state)
       THEN LET r == to_json_file(perms)
            IN  /\ files' = [files EXCEPT ![config.dump_state.s] = r.file]
                /\ failure' = IF r.ok THEN failure
                              ELSE [exc |-> "TypeError", key |-> ""]
                /\ pc' = IF r.ok THEN "exit" ELSE "raised"
       ELSE /\ pc' = "exit"
            /\ UNCHANGED <<files, failure>>
    /\ UNCHANGED <<config, registry, requests, built, repos, inner, outer,
                   perms, external, last, stdout, exit_code, overtaken>>

\* if external: sys.exit(1); otherwise main returns and react exits with 0.
main_exit ==
    /\ pc = "exit"
    /\ exit_code' = <<exit_status(external)>>
    /\ pc' = "exited"
    /\ UNCHANGED <<config, registry, files, requests, built, repos, inner,
                   outer, perms, failure, external, last, stdout, overtaken>>

\* react on a main that failed: the failure is logged, the status is 1.
react_failure ==
    /\ pc = "raised"
    /\ exit_code' = <<1>>
    /\ pc' = "exited"
    /\ UNCHANGED <<config, registry, files, requests, built, repos, inner,
                   outer, perms, failure, external, last, stdout, overtaken>>

(***************************************************************************)
(* Specifications                                                          *)
(***************************************************************************)
\* Snapshots a client builds from lists, and the dicts of their entries.
ListEntry(repo, users, teams) ==
    RepositoryPermissions(
        Repository_from_dict(repo),
        PyList([i \in 1..Len(users) |-> UserPermission_from_dict(users[i])]),
        PyList([i \in 1..Len(teams) |-> TeamPermission_from_dict(teams[i])]))

ListEntries ==
    {ListEntry(RepoA, <<alice, bob, cibot>>, <<devs, ops>>),
     ListEntry(RepoB, <<alice>>, <<>>),
     ListEntry(RepoA, <<bob>>, <<devs>>),
     ListEntry(RepoA2, <<>>, <<>>),
     ListEntry(RepoA2, <<cibot>>, <<>>)}

\* The entries of a state file, well-formed or lacking keys.
Without(d, keys) == [k \in DOMAIN d \ keys |-> d[k]]

FileEntry(repo, users, teams) ==
    [repository |-> repo, user_permissions |-> users, team_permissions |-> teams]

FileEntries ==
    {FileEntry(RepoA, <<alice, bob, cibot>>, <<devs, ops>>),
     FileEntry(RepoB, <<alice>>, <<>>),
     FileEntry(RepoA, <<bob>>, <<devs>>),
     Without(FileEntry(RepoA2, <<cibot>>, <<>>), {"team_permissions"}),
     Without(FileEntry(RepoB, <<>>, <<>>), {"user_permissions", "team_permissions"}),
     Without(FileEntry(RepoB, <<bob>>, <<devs>>), {"repository"})}

StateFiles == {NoFile} \cup {JsonFile(d) : d \in SeqsUpTo(FileEntries, MaxRepos)}

InitCommon ==
    /\ requests = <<>>
    /\ built = "idle"
    /\ repos = <<>>
    /\ inner = <<>>
    /\ outer = gatherResults(0)
    /\ failure = NoFailure
    /\ external = <<>>
    /\ last = [op |-> "none", ok |-> TRUE, path |-> "", before |-> <<>>,
               prev |-> <<>>, repeat |-> FALSE]
    /\ stdout = <<>>
    /\ exit_code = <<>>
    /\ overtaken = FALSE

Registries == {[endpoint |-> QUAY_IO_ENDPOINT, token |-> t] : t \in Tokens}

\* The client gets its snapshot from the registry, ...
InitRegistry ==
    /\ config = [from_state |-> None, dump_state |-> None, namespace |-> "acme"]
    /\ registry \in Registries
    /\ files = [p \in Paths |-> NoFile]
    /\ pc = "start"
    /\ perms = NoSnapshot

\* ... from a state file, ...
InitFile ==
    /\ config = [from_state |-> Str("quay.state"), dump_state |-> None,
                 namespace |-> "acme"]
    /\ registry = [endpoint |-> QUAY_IO_ENDPOINT, token |-> None]
    /\ \E f \in StateFiles :
          files = [p \in Paths |-> IF p = "quay.state" THEN f ELSE NoFile]
    /\ pc = "start"
    /\ perms = NoSnapshot

\* ... or has made it from lists of its own.
InitLists ==
    /\ config = [from_state |-> None, dump_state |-> None, namespace |-> "acme"]
    /\ registry = [endpoint |-> QUAY_IO_ENDPOINT, token |-> None]
    /\ files = [p \in Paths |-> NoFile]
    /\ pc = "have_perms"
    /\ perms \in {AllRepositoryPermissions(s) : s \in SeqsUpTo(ListEntries, MaxEntries)}

Init == InitCommon /\ (InitRegistry \/ InitFile \/ InitLists)

Next ==
    \/ from_registry
    \/ list_repositories_done
    \/ get_user_permissions_done
    \/ get_team_permissions_done
    \/ call_from_json_file
    \/ call_to_json_file
    \/ call_find

Spec == Init /\ [][Next]_vars

\* from_registry alone, with requests that end: while a request is
\* outstanding, some outstanding request ends at some time.
BuildInit == InitCommon /\ InitRegistry /\ registry.token = None

BuildNext ==
    \/ from_registry
    \/ list_repositories_done
    \/ get_user_permissions_done
    \/ get_team_permissions_done

BuildSpec == BuildInit /\ [][BuildNext]_vars /\ WF_vars(BuildNext)

\* The command-line tool: the arguments and the environment of one run,
\* with --from-state and a state file, or without and with a registry.
MainInit ==
    /\ InitCommon
    /\ pc = "start"
    /\ perms = NoSnapshot
    /\ \/ /\ \E dump_state \in {None, Str("dump.json"), Str("quay.state")} :
                config = [from_state |-> Str("quay.state"),
                          dump_state |-> dump_state, namespace |-> "acme"]
          /\ registry = [endpoint |-> QUAY_IO_ENDPOINT, token |-> None]
          /\ \E f \in StateFiles :
                files = [p \in Paths |-> IF p = "quay.state" THEN f ELSE NoFile]
       \/ /\ \E dump_state \in {None, Str("dump.json")} :
                config = [from_state |-> None, dump_state |-> dump_state,
                          namespace |-> "acme"]
          /\ \E token \in {None, Str("s3cret")} :
                registry = [endpoint |-> QUAY_IO_ENDPOINT, token |-> token]
          /\ files = [p \in Paths |-> NoFile]

MainNext ==
    \/ main_from_json_file
    \/ from_registry
    \/ list_repositories_done
    \/ get_user_permissions_done
    \/ get_team_permissions_done
    \/ main_find
    \/ main_print
    \/ main_dump
    \/ main_exit
    \/ react_failure

MainSpec == MainInit /\ [][MainNext]_vars

(***************************************************************************)
(* Properties                                                              *)
(***************************************************************************)
Entries == perms._repository_permissions

\* The RepositoryPermissions of repository i: the repository with the
\* results of the two requests made for it.
PermissionsOf(i) ==
    RepositoryPermissions(repos[i], fetch_result(i, 1, "ok"), fetch_result(i, 2, "ok"))

Fetch(i, k) == inner[i].resultList[k]
FetchFailed(i, k) == Fetch(i, k).done /\ ~Fetch(i, k).ok
FetchSucceeded(i, k) == Fetch(i, k).done /\ Fetch(i, k).ok

\* The snapshot is as from_registry returned it: no method was called since.
Fresh == built = "done" /\ last.op = "none"

\* C1: the snapshot from_registry returns has one entry per repository of the
\* list, and entry i is the RepositoryPermissions of repository i, whatever
\* the order in which the fetches completed.
C1_OrderPreserved ==
    Fresh =>
        /\ perms # NoSnapshot
        /\ Len(Entries) = Len(repos)
        /\ \A i \in 1..Len(repos) : Entries[i] = PermissionsOf(i)

\* C1 witness: a finished build over two different repositories in which the
\* second repository's aggregation finished before the first's.
C1_Witness ==
    /\ Fresh
    /\ overtaken
    /\ Len(repos) >= 2
    /\ repos[1] # repos[2]
    /\ Entries[1].repository = repos[1]

\* C2: once a permission fetch has failed, the build has failed, its failure
\* wraps the failure of a fetch that failed, and there is no snapshot.
C2_FailFast ==
    (\E i \in 1..Len(repos), k \in 1..2 : FetchFailed(i, k)) =>
        /\ built = "failed"
        /\ perms = NoSnapshot
        /\ \E i \in 1..Len(repos), k \in 1..2 :
              /\ FetchFailed(i, k)
              /\ failure = FirstError(FirstError(Fetch(i, k).val, k - 1), i - 1)

\* C2 witness: the team fetch of the second repository failed, every other
\* fetch succeeded, and the build failed with that failure.
C2_Witness ==
    /\ Len(repos) >= 2
    /\ FetchFailed(2, 2)
    /\ \A i \in 1..Len(repos), k \in 1..2 : <<i, k>> # <<2, 2>> => FetchSucceeded(i, k)
    /\ built = "failed"
    /\ failure.subFailure.subFailure = Fetch(2, 2).val

\* C3: the call for repository i has a result only once both its fetches
\* succeeded, and then the record of both results; when a fetch failed it has
\* failed with the failure of a failed fetch of its own; it never holds a
\* record made of one result.
C3_AllOrNothing ==
    \A i \in 1..Len(repos) :
        LET r == outer.resultList[i]
        IN  /\ (r.done /\ r.ok) =>
                  /\ FetchSucceeded(i, 1) /\ FetchSucceeded(i, 2)
                  /\ r.val = RepositoryPermissions(repos[i], Fetch(i, 1).val,
                                                   Fetch(i, 2).val)
            /\ (FetchFailed(i, 1) \/ FetchFailed(i, 2)) =>
                  /\ r.done /\ ~r.ok
                  /\ \E k \in 1..2 : /\ FetchFailed(i, k)
                                     /\ r.val = FirstError(Fetch(i, k).val, k - 1)
            /\ (FetchSucceeded(i, 1) /\ FetchSucceeded(i, 2)) => r.done /\ r.ok

\* C3 witness: a repository whose user fetch succeeded and whose team fetch
\* failed; its call failed with the failure of the team fetch.
C3_Witness ==
    \E i \in 1..Len(repos) :
        /\ FetchSucceeded(i, 1)
        /\ FetchFailed(i, 2)
        /\ outer.resultList[i].done /\ ~outer.resultList[i].ok
        /\ outer.resultList[i].val.subFailure = Fetch(i, 2).val

\* C4 (as claimed): to_json_file on the snapshot held succeeds, and a
\* from_json_file of the path just written succeeds with a snapshot of the
\* same content as the one written: as many entries, in the same order, with
\* the same repositories, user permissions and team permissions.
C4_RoundTrip ==
    /\ last.op = "to_json_file" => last.ok
    /\ (last.op = "from_json_file" /\ last.repeat) =>
           /\ last.ok
           /\ Observable(perms) = last.before

\* The users of a sequence that are no org members, in their order.
RECURSIVE NonMembers(_)
NonMembers(users) ==
    IF users = <<>> THEN <<>>
    ELSE IF Head(users).is_org_member THEN NonMembers(Tail(users))
    ELSE <<Head(users)>> \o NonMembers(Tail(users))

\* The entries of a snapshot content with a user who is no org member.
Offending(content) ==
    {i \in 1..Len(content) : NonMembers(content[i].user_permissions) # <<>>}

Keys(mapping) == {mapping[j].key : j \in 1..Len(mapping)}

\* C5: after find_repos_with_external_users, a repository of the snapshot is
\* a key of the mapping exactly when an entry for it had, at the call, a user
\* who is no org member; no key has an empty list and every key is a
\* repository of the snapshot.
C5_KeysAreOffending ==
    last.op = "find" =>
        /\ \A i \in 1..Len(last.before) :
              (last.before[i].repository \in Keys(external))
                  <=> (\E o \in Offending(last.before) :
                          last.before[o].repository = last.before[i].repository)
        /\ \A j \in 1..Len(external) :
              /\ external[j].value # <<>>
              /\ \E i \in 1..Len(last.before) :
                    last.before[i].repository = external[j].key

\* C5 witness: a snapshot of two entries, one with external users, the other
\* with users who are all org members; the mapping has the first alone.
C5_Witness ==
    /\ last.op = "find"
    /\ Len(last.before) = 2
    /\ Len(external) = 1
    /\ \E i \in 1..2 : /\ last.before[i].user_permissions # <<>>
                       /\ i \notin Offending(last.before)
                       /\ last.before[i].repository \notin Keys(external)

\* C6: the value of every key is the sequence of the users of that
\* repository's entry who are no org members, in the order of the entry (of
\* the last such entry when the snapshot has several for one repository);
\* every item is a UserPermission of a user who is no org member.
C6_ValuesAreExternalUsers ==
    last.op = "find" =>
        \A j \in 1..Len(external) :
            LET mine == {o \in Offending(last.before) :
                            last.before[o].repository = external[j].key}
            IN  /\ mine # {}
                /\ LET o == CHOOSE o \in mine : \A x \in mine : x <= o
                   IN  external[j].value =
                           NonMembers(last.before[o].user_permissions)
                /\ \A u \in 1..Len(external[j].value) :
                      /\ external[j].value[u].cls = "UserPermission"
                      /\ ~external[j].value[u].is_org_member

\* C6 witness: the entry alice (member), bob, ci robot gave the value bob, ci
\* robot.
C6_Witness ==
    /\ last.op = "find"
    /\ \E j \in 1..Len(external), i \in 1..Len(last.before) :
          /\ last.before[i].repository = external[j].key
          /\ Len(last.before[i].user_permissions) = 3
          /\ last.before[i].user_permissions[1].is_org_member
          /\ Len(external[j].value) = 2
          /\ external[j].value[1] = last.before[i].user_permissions[2]
          /\ external[j].value[2] = last.before[i].user_permissions[3]
          /\ external[j].value[2].is_robot

\* C7 (as claimed): after find_repos_with_external_users the content of the
\* snapshot is what it was before the call, and a call that follows another
\* returns the mapping the first returned.
C7_SnapshotUnchanged ==
    last.op = "find" =>
        /\ Observable(perms) = last.before
        /\ last.repeat => external = last.prev

\* A state file with an entry that has no team_permissions key.
LacksTeamPermissions(file) ==
    /\ file.kind = "json"
    /\ \E i \in 1..Len(file.data) : "team_permissions" \notin DOMAIN file.data[i]

C9_Authorization ==
    \A r \in 1..Len(requests) :
        IF registry.token \in {None, Str("")}
        THEN \A h \in requests[r].headers : h[1] # "Authorization"
        ELSE /\ <<"Authorization", <<"Bearer ", registry.token.s>>>>
                    \in requests[r].headers
             /\ \A h \in requests[r].headers :
                    h[1] = "Authorization" => h[2] = <<"Bearer ", registry.token.s>>

\* C9 witness: without a token, the list request and the user and team
\* requests of a repository were issued, none with a header.
C9_Witness ==
    /\ registry.token = None
    /\ Len(requests) >= 3
    /\ requests[1].url[3] = <<"repository">>
    /\ requests[2].url[3][3] = "/permissions/user/"
    /\ requests[3].url[3][3] = "/permissions/team/"
    /\ \A r \in 1..Len(requests) : requests[r].headers = {}

\* block occurs in lines, as consecutive lines.
Occurs(block, lines) ==
    \E k \in 0..(Len(lines) - Len(block)) :
        SubSeq(lines, k + 1, k + Len(block)) = block

\* Entry o is the last entry of the content for its repository with external
\* users.
LastOffending(content, o) ==
    \A x \in Offending(content) :
        content[x].repository = content[o].repository => x <= o

\* C10: when main has exited after it got a snapshot in which some entry has
\* a user who is no org member, the exit status is not 0, and by then the
\* spec of every such repository was printed, followed by a line for each
\* external user of its entry (of its last such entry when the snapshot has
\* several entries for one repository) and an empty line.
C10_ExitAfterReport ==
    (pc = "exited" /\ perms # NoSnapshot /\ Offending(last.before) # {}) =>
        /\ exit_code # <<>>
        /\ exit_code[1] # 0
        /\ \A o \in Offending(last.before) :
              /\ Occurs(<<spec(last.before[o].repository)>>, stdout)
              /\ LastOffending(last.before, o) =>
                     Occurs(print_item(last.before[o].repository,
                                       NonMembers(last.before[o].user_permissions)),
                            stdout)

\* C10 witness: main called sys.exit(1) after it printed two repositories,
\* one of them with a robot.
C10_Witness ==
    /\ pc = "exited"
    /\ failure = NoFailure
    /\ exit_code = <<1>>
    /\ Len(external) = 2
    /\ printed_items(stdout) = 2
    /\ \E l \in 1..Len(stdout) : Len(stdout[l]) = 6 /\ stdout[l][6] = " (robot)"


\* C11: in a run of main given --from-state, no request is ever issued to
\* the registry (no list, user or team request), the registry build never
\* starts, and the snapshot main works on is the one parsed from the file.
C11_NoRequestsFromState ==
    Truthy(config.from_state) =>
        /\ requests = <<>>
        /\ built = "idle"
        /\ pc = "have_perms" =>
               perms = from_json_file(files[config.from_state.s]).val

C11_Witness ==
    /\ Truthy(config.from_state)
    /\ config.dump_state = None
    /\ pc = "exited"
    /\ exit_code = <<1>>
    /\ last.op = "find"
    /\ Len(last.before) = MaxRepos
    /\ requests = <<>>


Outstanding(i, k) == ~Fetch(i, k).done

\* C12: the step in which the build fails reports the failure of the fetch
\* that ended in that step, no fetch having failed before it; from then on
\* the build stays failed with the same failure and without a snapshot,
\* whatever the fetches still outstanding do; and those fetches are not
\* cancelled: each can still end, with a result or with a failure.
C12_FirstFailureFinal ==
    /\ [][
          /\ built = "failed" =>
                 built' = "failed" /\ failure' = failure /\ perms' = NoSnapshot
          /\ (built = "gathering" /\ built' = "failed") =>
                /\ \A i \in 1..Len(repos), k \in 1..2 : ~FetchFailed(i, k)
                /\ \E i \in 1..Len(repos), k \in 1..2 :
                      /\ Outstanding(i, k)
                      /\ inner'[i].resultList[k].done
                      /\ ~inner'[i].resultList[k].ok
                      /\ failure' = FirstError(
                             FirstError(inner'[i].resultList[k].val, k - 1), i - 1)
          ]_vars
    /\ [](\A i \in 1..Len(repos), k \in 1..2 :
             (built = "failed" /\ Outstanding(i, k)) =>
                 \A outcome \in PermissionOutcomes :
                     ENABLED permissions_done(i, k, outcome))

\* C12 witness: the build failed on a fetch of the second repository; a
\* fetch of the first repository failed after that and another succeeded,
\* and the failure reported is still the second repository's.
C12_Witness ==
    /\ built = "failed"
    /\ Len(repos) >= 2
    /\ failure.exc = "FirstError"
    /\ failure.index = 1
    /\ FetchFailed(1, 1)
    /\ FetchSucceeded(1, 2)
    /\ failure.subFailure.subFailure # Fetch(1, 1).val


\* C13: the step in which the list request succeeds issues the user and the
\* team request of every repository, 2n requests that are all outstanding
\* together with no fetch waited on yet; no later step issues a request, so
\* no fetch is issued because another one ended.
C13_AllIssuedAtOnce ==
    /\ [][(built = "listing" /\ built' # "failed") =>
             /\ requests' = requests \o map_concurrently_requests(repos', registry)
             /\ Len(requests') = 1 + 2 * Len(repos')
             /\ \A i \in 1..Len(repos') :
                   \A k \in 1..2 : ~inner'[i].resultList[k].done
          ]_vars
    /\ [][requests' # requests => built \in {"idle", "listing"}]_vars
    /\ [](built \in {"gathering", "done"} => Len(requests) = 1 + 2 * Len(repos))

\* C13 witness: the requests of MaxRepos repositories, all of them issued
\* and none of them ended.
C13_Witness ==
    /\ built = "gathering"
    /\ Len(repos) = MaxRepos
    /\ Len(requests) = 1 + 2 * MaxRepos
    /\ \A i \in 1..Len(repos), k \in 1..2 : Outstanding(i, k)


ListFailed == "req" \in DOMAIN failure /\ failure.req = 1

\* C14: when the list request failed, from_registry has failed with the
\* failure of that request, there is no snapshot, and the list request is
\* the only request ever issued; a permission request exists only after a
\* list request that succeeded.
C14_ListFailure ==
    /\ ListFailed =>
          /\ built = "failed"
          /\ pc = "raised"
          /\ failure.exc \in Outcomes \ {"ok"}
          /\ perms = NoSnapshot
          /\ requests = <<list_repositories_request(registry, config.namespace)>>
    /\ Len(requests) > 1 =>
          /\ ~ListFailed
          /\ built \in {"gathering", "failed", "done"}
          /\ Len(repos) >= 1

\* C14 witness: the list response lacked the key 'repositories'; the build
\* has failed with the KeyError and one request was made.
C14_Witness ==
    /\ ListFailed
    /\ failure = RequestFailure("KeyError", 1)
    /\ built = "failed"
    /\ Len(requests) = 1


\* C15: in the snapshot from_registry returns, the user request behind
\* entry i was made for the spec of entry i's own repository, and the
\* entry's user_permissions is what the registry answers for that spec; the
\* same for the team request and team_permissions.
C15_OwnPermissions ==
    Fresh =>
        \A i \in 1..Len(Entries) :
            LET own == spec(Entries[i].repository)
            IN  /\ requests[RequestOf(i, 1)].url[3]
                      = <<"repository/", own, "/permissions/user/">>
                /\ requests[RequestOf(i, 2)].url[3]
                      = <<"repository/", own, "/permissions/team/">>
                /\ Entries[i].user_permissions
                      = PyMap("UserPermission.from_dict", values(ServerUsers(own)))
                /\ Entries[i].team_permissions
                      = PyMap("TeamPermission.from_dict", values(ServerTeams(own)))

\* C15 witness: a snapshot over two repositories with different specs, for
\* which the registry answers differently, the second aggregated first.
C15_Witness ==
    /\ Fresh
    /\ overtaken
    /\ Len(Entries) >= 2
    /\ spec(Entries[1].repository) # spec(Entries[2].repository)
    /\ Entries[1].user_permissions # Entries[2].user_permissions
    /\ Entries[1].team_permissions # Entries[2].team_permissions


ListRequests ==
    {r \in 1..Len(requests) : requests[r].url[3] = <<"repository">>}

PermissionRequests(repo_spec, kind) ==
    {r \in 1..Len(requests) : requests[r].url[3] = <<"repository/", repo_spec, kind>>}

Returned(repo_spec) == {i \in 1..Len(repos) : spec(repos[i]) = repo_spec}

\* C16: once from_registry has started, and whether the build is under way,
\* done or failed, there has been one list request, and for every spec as
\* many user requests and as many team requests as repositories of that
\* spec were returned, and no other request: nothing is requested again
\* after a failure or for a further page.
C16_ExactlyOnce ==
    built # "idle" =>
        /\ Cardinality(ListRequests) = 1
        /\ \A i \in 1..Len(repos) :
              LET own == spec(repos[i])
              IN  /\ Cardinality(PermissionRequests(own, "/permissions/user/"))
                        = Cardinality(Returned(own))
                  /\ Cardinality(PermissionRequests(own, "/permissions/team/"))
                        = Cardinality(Returned(own))
        /\ Len(requests) = 1 + 2 * Len(repos)

\* C16 witness: the list response was a full page of different
\* repositories, a fetch failed, and every fetch has ended.
C16_Witness ==
    /\ built = "failed"
    /\ Len(repos) = MaxRepos
    /\ spec(repos[1]) # spec(repos[2])
    /\ \A i \in 1..Len(repos), k \in 1..2 : Fetch(i, k).done
    /\ \E i \in 1..Len(repos), k \in 1..2 : FetchFailed(i, k)
    /\ Len(requests) = 1 + 2 * MaxRepos


\* The first entry of a snapshot content for a repository, and the first
\* one with a user who is no org member.
FirstEntry(content, repository) ==
    CHOOSE i \in 1..Len(content) :
        /\ content[i].repository = repository
        /\ \A j \in 1..(i - 1) : content[j].repository # repository

FirstOffending(content, repository) ==
    CHOOSE i \in Offending(content) :
        /\ content[i].repository = repository
        /\ \A j \in Offending(content) :
              j < i => content[j].repository # repository

\* C17 (as claimed): the keys of the mapping are different Repository
\* values, in the order in which these repositories first appear in the
\* snapshot.
C17_FirstAppearance ==
    last.op = "find" =>
        \A j, m \in 1..Len(external) :
            j < m =>
                /\ external[j].key # external[m].key
                /\ FirstEntry(last.before, external[j].key)
                      < FirstEntry(last.before, external[m].key)

\* C17 (amended): the keys of the mapping are different Repository values,
\* one for all the entries of a Repository equal in every field, in the
\* order in which these repositories first appear in the snapshot in an
\* entry with a user who is no org member.
C17_FirstOffendingAppearance ==
    last.op = "find" =>
        \A j, m \in 1..Len(external) :
            j < m =>
                /\ external[j].key # external[m].key
                /\ FirstOffending(last.before, external[j].key)
                      < FirstOffending(last.before, external[m].key)

\* C17 witness: three entries; the first and the third are of one
\* Repository, the first without external users, the third with; the second
\* is of another Repository with external users, and its key comes first.
C17_Witness ==
    /\ last.op = "find"
    /\ Len(last.before) = 3
    /\ last.before[1].repository = last.before[3].repository
    /\ last.before[2].repository # last.before[1].repository
    /\ Offending(last.before) = {2, 3}
    /\ Len(external) = 2
    /\ external[1].key = last.before[2].repository
    /\ external[2].key = last.before[1].repository


\* The JSON document of a snapshot content.
Document(content) ==
    [i \in 1..Len(content) |->
        [repository |-> Repository_asdict(content[i].repository),
         user_permissions |->
             [j \in 1..Len(content[i].user_permissions) |->
                 Permission_asdict(content[i].user_permissions[j])],
         team_permissions |->
             [j \in 1..Len(content[i].team_permissions) |->
                 Permission_asdict(content[i].team_permissions[j])]]]

\* C18 (as claimed): when main was given --dump-state and had its snapshot,
\* the process has, when it exits and whatever its status, written to that
\* path the document of the snapshot as it was before the analysis.
C18_DumpBeforeExit ==
    (pc = "exited" /\ Truthy(config.dump_state) /\ perms # NoSnapshot) =>
        files[config.dump_state.s] = JsonFile(Document(last.before))


Ended == built \in {"done", "failed"}

\* C19: with the list request ending and every permission request issued
\* ending at some time, a from_registry that has started ends, with a
\* snapshot or with a failure; while it waits for fetches some fetch is
\* outstanding; and over a list of no repositories it ends in the step the
\* list request ends, with the empty snapshot and no permission request.
C19_Completes ==
    /\ (built = "listing") ~> Ended
    /\ [](built = "gathering" =>
             \E i \in 1..Len(repos), k \in 1..2 : Outstanding(i, k))
    /\ [](built = "done" => perms # NoSnapshot /\ failure = NoFailure)
    /\ [](built = "failed" => perms = NoSnapshot /\ failure # NoFailure)
    /\ [][(built = "listing" /\ built' # "failed" /\ repos' = <<>>) =>
             /\ built' = "done"
             /\ perms' = AllRepositoryPermissions(<<>>)
             /\ requests' = requests
          ]_vars

\* C19 witness: a build over MaxRepos repositories that ended with its
\* snapshot once the last of its fetches had ended.
C19_Witness ==
    /\ built = "done"
    /\ Len(repos) = MaxRepos
    /\ \A i \in 1..Len(repos), k \in 1..2 : FetchSucceeded(i, k)
    /\ Len(Entries) = MaxRepos

====
